---- MODULE Spec2Model ----
(***************************************************************************)
(* Model of the Grok Live Search tool: the API client                      *)
(* (grok_live_search_api.py, class GrokLiveSearchAPI) and the part of the  *)
(* Tk front end that drives it (grok_live_search_gui_fixed.py).            *)
(*                                                                         *)
(* Representation of Python values                                         *)
(*   str that the code transforms (strip, split, f-string, `in`)           *)
(*        -> sequence of one-character strings, "US" is <<"U","S">>        *)
(*   str that the code only copies or compares (type, mode, model, dates)  *)
(*        -> TLA+ string                                                   *)
(*   list -> sequence;  dict -> function from key strings to values        *)
(*   optional argument x=None -> <<>> for None, <<v>> for the value v      *)
(*   decoded JSON -> tagged pair <<tag, payload>>, see the J* operators    *)
(*   result of a call -> [kind, exc, msg, response, context, value]        *)
(***************************************************************************)
EXTENDS Integers, Sequences, FiniteSets, TLC

VARIABLES
    fn_args,        \* arguments of the pure function under examination
    fn_ret,         \* its outcome, NotCalled before the call
    api_key,        \* GrokLiveSearchAPI.api_key
    th,             \* thread id -> frame of the execute_search call it runs
    net_calls,      \* number of times requests.post was entered
    observed,       \* (cause, exception class) pairs seen by callers so far
    requests_modern, \* TRUE: requests >= 2.27, json() raises a RequestException
    form,           \* the Tk variables and text widgets the user edits
    submit_button,  \* QueryFrame.submit_button: its state and text
    cursor,         \* cursor of the root window
    bubble_chat,    \* BubbleChatFrame: the message bubbles, oldest first
    after_queue,    \* callbacks given to root.after(0, ...), not yet run
    ui_stack,       \* handlers of the UI thread that wait in a nested event loop
    popups,         \* result windows open, each holding the input grab
    edits           \* number of edits the user has made

pureVars == <<fn_args, fn_ret>>
clientVars == <<api_key, th, net_calls, observed, requests_modern>>
guiVars == <<form, submit_button, cursor, bubble_chat, after_queue, ui_stack,
             popups, edits>>
vars == <<fn_args, fn_ret, api_key, th, net_calls, observed, requests_modern,
          form, submit_button, cursor, bubble_chat, after_queue, ui_stack,
          popups, edits>>

(***************************************************************************)
(* Python helpers                                                          *)
(***************************************************************************)
None == <<>>
Some(v) == <<v>>

\* characters removed by str.strip() that occur in the model's alphabet
Whitespace == {" ", "\t", "\n"}

RECURSIVE LStrip(_)
LStrip(s) ==
    IF s # <<>> /\ Head(s) \in Whitespace THEN LStrip(Tail(s)) ELSE s

RECURSIVE RStrip(_)
RStrip(s) ==
    IF s # <<>> /\ s[Len(s)] \in Whitespace
    THEN RStrip(SubSeq(s, 1, Len(s) - 1)) ELSE s

\* str.strip()
Strip(s) == RStrip(LStrip(s))

\* truth value of an optional str or list: None and the empty one are false
Truthy(o) == o # None /\ Len(o[1]) > 0

\* d[k] = v on a dict
DictSet(d, k, v) == [x \in (DOMAIN d) \cup {k} |-> IF x = k THEN v ELSE d[x]]

\* outcomes of a call
NotCalled == [kind |-> "none", exc |-> "", msg |-> <<>>, response |-> None,
              context |-> "", value |-> <<>>]
Return(v) == [kind |-> "return", exc |-> "", msg |-> <<>>, response |-> None,
              context |-> "", value |-> v]
Raise(e, m, r, c) == [kind |-> "raise", exc |-> e, msg |-> m, response |-> r,
                      context |-> c, value |-> <<>>]

(***************************************************************************)
(* GrokLiveSearchAPI: pure methods                                         *)
(***************************************************************************)
\* the mutant drops the strip: a blank key passes
validate_api_key_nostrip(key) == Truthy(key)

validate_api_key(key) == Truthy(key) /\ Len(Strip(key[1])) > 0

\* the mutant tests `sources is not None` instead of the truth value
build_search_parameters_isnotnone(mode, sources, from_date, to_date, max_search_results, return_citations) ==
    LET p0 == ("mode" :> mode)
        p1 == IF sources # None THEN DictSet(p0, "sources", sources[1]) ELSE p0
        p2 == IF from_date # None /\ from_date[1] # ""
              THEN DictSet(p1, "from_date", from_date[1]) ELSE p1
        p3 == IF to_date # None /\ to_date[1] # ""
              THEN DictSet(p2, "to_date", to_date[1]) ELSE p2
        p4 == DictSet(p3, "max_search_results", max_search_results)
    IN  DictSet(p4, "return_citations", return_citations)


\* the mutant adds to_date only inside the branch that adds from_date
build_search_parameters_nesteddates(mode, sources, from_date, to_date, max_search_results, return_citations) ==
    LET p0 == ("mode" :> mode)
        p1 == IF Truthy(sources) THEN DictSet(p0, "sources", sources[1]) ELSE p0
        p2 == IF from_date # None /\ from_date[1] # ""
              THEN DictSet(p1, "from_date", from_date[1]) ELSE p1
        p3 == IF from_date # None /\ from_date[1] # "" /\ to_date # None /\ to_date[1] # ""
              THEN DictSet(p2, "to_date", to_date[1]) ELSE p2
        p4 == DictSet(p3, "max_search_results", max_search_results)
    IN  DictSet(p4, "return_citations", return_citations)

build_search_parameters(mode, sources, from_date, to_date, max_search_results, return_citations) ==
    LET p0 == ("mode" :> mode)
        p1 == IF Truthy(sources) THEN DictSet(p0, "sources", sources[1]) ELSE p0
        p2 == IF from_date # None /\ from_date[1] # ""
              THEN DictSet(p1, "from_date", from_date[1]) ELSE p1
        p3 == IF to_date # None /\ to_date[1] # ""
              THEN DictSet(p2, "to_date", to_date[1]) ELSE p2
        p4 == DictSet(p3, "max_search_results", max_search_results)
    IN  DictSet(p4, "return_citations", return_citations)

\* defaults of the signature of build_search_parameters
DefaultMode == "auto"
DefaultMaxResults == 20
DefaultReturnCitations == TRUE

\* the value of a keyword argument: the default when it is not passed
Arg(o, default) == IF o = None THEN default ELSE o[1]

\* the mutant forgets the kind test: every option is copied for every kind
build_source_config_anykind(source_type, country, excluded_websites, safe_search, x_handles, links) ==
    LET c0 == ("type" :> source_type)
        c1 == IF Truthy(country) THEN DictSet(c0, "country", country[1]) ELSE c0
        c2 == IF Truthy(excluded_websites)
              THEN DictSet(c1, "excluded_websites", excluded_websites[1]) ELSE c1
        c3 == IF safe_search # None
              THEN DictSet(c2, "safe_search", safe_search[1]) ELSE c2
        c4 == IF Truthy(x_handles)
              THEN DictSet(c3, "x_handles", x_handles[1]) ELSE c3
    IN  Return(IF Truthy(links) THEN DictSet(c4, "links", links[1]) ELSE c4)

\* the mutant tests the truth value of safe_search: False is dropped
build_source_config_truthy(source_type, country, excluded_websites, safe_search, x_handles, links) ==
    LET c0 == ("type" :> source_type)
    IN  IF source_type \in {"web", "news"}
        THEN LET c1 == IF Truthy(country)
                       THEN DictSet(c0, "country", country[1]) ELSE c0
                 c2 == IF Truthy(excluded_websites)
                       THEN DictSet(c1, "excluded_websites", excluded_websites[1])
                       ELSE c1
             IN  Return(IF safe_search # None /\ safe_search[1]
                        THEN DictSet(c2, "safe_search", safe_search[1]) ELSE c2)
        ELSE IF source_type = "x"
        THEN Return(IF Truthy(x_handles)
                    THEN DictSet(c0, "x_handles", x_handles[1]) ELSE c0)
        ELSE IF source_type = "rss"
        THEN Return(IF Truthy(links) THEN DictSet(c0, "links", links[1]) ELSE c0)
        ELSE Return(c0)


\* the mutant stores the three web and news options unconditionally, so an
\* option that was not supplied is emitted as null
build_source_config_emitsnull(source_type, country, excluded_websites, safe_search, x_handles, links) ==
    LET c0 == ("type" :> source_type)
    IN  IF source_type \in {"web", "news"}
        THEN LET c1 == DictSet(c0, "country", IF Truthy(country) THEN country[1] ELSE None)
                 c2 == DictSet(c1, "excluded_websites",
                               IF Truthy(excluded_websites) THEN excluded_websites[1]
                               ELSE None)
             IN  Return(DictSet(c2, "safe_search",
                                IF safe_search # None THEN safe_search[1] ELSE None))
        ELSE IF source_type = "x"
        THEN Return(IF Truthy(x_handles)
                    THEN DictSet(c0, "x_handles", x_handles[1]) ELSE c0)
        ELSE IF source_type = "rss"
        THEN Return(IF Truthy(links) THEN DictSet(c0, "links", links[1]) ELSE c0)
        ELSE Return(c0)

build_source_config(source_type, country, excluded_websites, safe_search, x_handles, links) ==
    LET c0 == ("type" :> source_type)
    IN  IF source_type \in {"web", "news"}
        THEN LET c1 == IF Truthy(country)
                       THEN DictSet(c0, "country", country[1]) ELSE c0
                 c2 == IF Truthy(excluded_websites)
                       THEN DictSet(c1, "excluded_websites", excluded_websites[1])
                       ELSE c1
             IN  Return(IF safe_search # None
                        THEN DictSet(c2, "safe_search", safe_search[1]) ELSE c2)
        ELSE IF source_type = "x"
        THEN Return(IF Truthy(x_handles)
                    THEN DictSet(c0, "x_handles", x_handles[1]) ELSE c0)
        ELSE IF source_type = "rss"
        THEN Return(IF Truthy(links) THEN DictSet(c0, "links", links[1]) ELSE c0)
        ELSE Return(c0)

(***************************************************************************)
(* Decoded JSON, as json() hands it to Python                              *)
(***************************************************************************)
JNull == <<"null", <<>> >>
JBool(b) == <<"bool", b>>
JInt(n) == <<"int", n>>
JStr(s) == <<"str", s>>
JList(l) == <<"list", l>>
JDict(d) == <<"dict", d>>

\* the str literals that parse_response looks up, as character sequences
Chars(key) ==
    CASE key = "choices" -> <<"c", "h", "o", "i", "c", "e", "s">>
      [] key = "message" -> <<"m", "e", "s", "s", "a", "g", "e">>
      [] key = "content" -> <<"c", "o", "n", "t", "e", "n", "t">>
      [] key = "citations" -> <<"c", "i", "t", "a", "t", "i", "o", "n", "s">>

\* an exception with no message and no attributes of interest
RaiseBare(e) == Raise(e, <<>>, None, "")


\* `is not None` in place of the truth value
PyTruthy_isnotnone(v) == v[1] # "null"

\* bool(v)
PyTruthy(v) ==
    CASE v[1] = "null" -> FALSE
      [] v[1] = "bool" -> v[2]
      [] v[1] = "int" -> v[2] # 0
      [] v[1] = "dict" -> DOMAIN v[2] # {}
      [] OTHER -> Len(v[2]) > 0

\* needle in hay, for two str
IsSubstring(needle, hay) ==
    \E i \in 0..Len(hay) :
        /\ i + Len(needle) <= Len(hay)
        /\ SubSeq(hay, i + 1, i + Len(needle)) = needle

\* key in v, for a str literal key: key test on a dict, membership on a
\* list, substring on a str, TypeError on anything else
PyIn(key, v) ==
    CASE v[1] = "dict" -> Return(key \in DOMAIN v[2])
      [] v[1] = "list" -> Return(\E i \in 1..Len(v[2]) : v[2][i] = JStr(Chars(key)))
      [] v[1] = "str" -> Return(IsSubstring(Chars(key), v[2]))
      [] OTHER -> RaiseBare("TypeError")

\* v[key], for a str literal key
PyGetKey(v, key) ==
    IF v[1] = "dict"
    THEN IF key \in DOMAIN v[2] THEN Return(v[2][key]) ELSE RaiseBare("KeyError")
    ELSE RaiseBare("TypeError")

\* v[0]
PyGetFirst(v) ==
    CASE v[1] = "list" ->
            IF Len(v[2]) > 0 THEN Return(v[2][1]) ELSE RaiseBare("IndexError")
      [] v[1] = "str" ->
            IF Len(v[2]) > 0 THEN Return(JStr(<<v[2][1]>>)) ELSE RaiseBare("IndexError")
      [] v[1] = "dict" -> RaiseBare("KeyError")
      [] OTHER -> RaiseBare("TypeError")

(***************************************************************************)
(* GrokLiveSearchAPI.parse_response                                        *)
(***************************************************************************)
Parsed(content, citations, raw) ==
    [content |-> content, citations |-> citations, raw |-> raw]

\* the content that lines 199-200 leave in parsed["content"]
ChoiceContent(choice) ==
    LET hasMessage == PyIn("message", choice)
    IN  IF hasMessage.kind = "raise" THEN hasMessage
        ELSE IF ~hasMessage.value THEN Return(JStr(<<>>))
        ELSE LET message == PyGetKey(choice, "message")
             IN  IF message.kind = "raise" THEN message
                 ELSE LET hasContent == PyIn("content", message.value)
                      IN  IF hasContent.kind = "raise" THEN hasContent
                          ELSE IF ~hasContent.value THEN Return(JStr(<<>>))
                          ELSE PyGetKey(message.value, "content")

\* the citations that lines 203-204 leave in parsed["citations"]
ChoiceCitations(choice) ==
    LET hasCitations == PyIn("citations", choice)
    IN  IF hasCitations.kind = "raise" THEN hasCitations
        ELSE IF ~hasCitations.value THEN Return(JList(<<>>))
        ELSE PyGetKey(choice, "citations")


\* raw taken from the choice that was read instead of the whole response
ParseChoice_rawchoice(choice, response) ==
    LET content == ChoiceContent(choice)
        citations == ChoiceCitations(choice)
    IN  IF content.kind = "raise" THEN content
        ELSE IF citations.kind = "raise" THEN citations
        ELSE Return(Parsed(content.value, citations.value, choice))

\* lines 198-206, for the first choice
ParseChoice(choice, response) ==
    LET content == ChoiceContent(choice)
        citations == ChoiceCitations(choice)
    IN  IF content.kind = "raise" THEN content
        ELSE IF citations.kind = "raise" THEN citations
        ELSE Return(Parsed(content.value, citations.value, response))

parse_response(response) ==
    LET hasChoices == PyIn("choices", response)
    IN  IF hasChoices.kind = "raise" THEN hasChoices
        ELSE IF ~hasChoices.value
        THEN Return(Parsed(JStr(<<>>), JList(<<>>), response))
        ELSE LET choices == PyGetKey(response, "choices")
             IN  IF choices.kind = "raise" THEN choices
                 ELSE IF ~PyTruthy(choices.value)
                 THEN Return(Parsed(JStr(<<>>), JList(<<>>), response))
                 ELSE LET choice == PyGetFirst(choices.value)
                      IN  IF choice.kind = "raise" THEN choice
                          ELSE ParseChoice(choice.value, response)

(***************************************************************************)
(* GrokLiveSearchAPI.execute_search, one step per shared read or I/O       *)
(***************************************************************************)
API_URL == "https://api.x.ai/v1/chat/completions"
DefaultModel == "grok-3-latest"

\* a frame of execute_search that no call occupies
IdleFrame ==
    [pc |-> "idle", query |-> <<>>, model |-> "", search_parameters |-> None,
     payload |-> <<>>, headers |-> <<>>, posts |-> 0, answer |-> <<>>,
     cause |-> "", outcome |-> NotCalled]

\* the frame on entry to execute_search(query, model, search_parameters)
EntryFrame(query, model, search_parameters) ==
    [IdleFrame EXCEPT !.pc = "validate", !.query = query, !.model = model,
                      !.search_parameters = search_parameters]


\* the key check that also forgets a key it found invalid
ExecValidate_clearskey(t) ==
    /\ th[t].pc = "validate"
    /\ th' = [th EXCEPT ![t] =
                IF validate_api_key(api_key)
                THEN [@ EXCEPT !.pc = "build"]
                ELSE [@ EXCEPT !.pc = "done", !.cause = "credential",
                               !.outcome = Raise("ValueError",
                                   <<"API key is not set or is invalid">>, None, "")]]
    /\ api_key' = IF validate_api_key(api_key) THEN api_key ELSE None
    /\ UNCHANGED <<pureVars, guiVars, net_calls, observed, requests_modern>>

\* lines 146-147: the key check, before anything else
ExecValidate(t) ==
    /\ th[t].pc = "validate"
    /\ th' = [th EXCEPT ![t] =
                IF validate_api_key(api_key)
                THEN [@ EXCEPT !.pc = "build"]
                ELSE [@ EXCEPT !.pc = "done", !.cause = "credential",
                               !.outcome = Raise("ValueError",
                                   <<"API key is not set or is invalid">>, None, "")]]
    /\ UNCHANGED <<pureVars, guiVars, api_key, net_calls, observed, requests_modern>>

\* f"Bearer {self.api_key}": None is formatted as the text None
BearerOf(key) ==
    <<"B", "e", "a", "r", "e", "r", " ">>
        \o (IF key = None THEN <<"N", "o", "n", "e">> ELSE key[1])


\* the payload with the parameters left out when they are the defaults
Payload_dropsparams(query, model, search_parameters) ==
    IF "sources" \in DOMAIN search_parameters
    THEN [messages |-> << [role |-> "user", content |-> query] >>,
          search_parameters |-> search_parameters,
          model |-> model]
    ELSE [messages |-> << [role |-> "user", content |-> query] >>,
          model |-> model]

\* lines 154-163
Payload(query, model, search_parameters) ==
    [messages |-> << [role |-> "user", content |-> query] >>,
     search_parameters |-> search_parameters,
     model |-> model]

\* lines 166-169
Headers(key) ==
    ("Content-Type" :> <<"application/json">>) @@ ("Authorization" :> BearerOf(key))

\* lines 150-169: default parameters, payload and headers
ExecBuild(t) ==
    /\ th[t].pc = "build"
    /\ LET sp == IF th[t].search_parameters = None
                 THEN build_search_parameters(DefaultMode, None, None, None,
                                              DefaultMaxResults, DefaultReturnCitations)
                 ELSE th[t].search_parameters[1]
       IN  th' = [th EXCEPT ![t] =
                    [@ EXCEPT !.pc = "post",
                              !.payload = Payload(th[t].query, th[t].model, sp),
                              !.headers = Headers(api_key)]]
    /\ UNCHANGED <<pureVars, guiVars, api_key, net_calls, observed, requests_modern>>

\* line 173, entry: the request leaves for API_URL
ExecPost(t) ==
    /\ th[t].pc = "post"
    /\ th' = [th EXCEPT ![t] = [@ EXCEPT !.pc = "await", !.posts = @ + 1]]
    /\ net_calls' = net_calls + 1
    /\ UNCHANGED <<pureVars, guiVars, api_key, observed, requests_modern>>

\* what the network can answer to one POST
HttpStatuses == {200, 204, 401, 500}
HttpBodies ==
    { [text |-> "{\"choices\": [...]}",
       json |-> Some(JDict("choices" :> JList(<<
                   JDict(("message" :> JDict("content" :> JStr(<<"h", "i">>)))
                         @@ ("citations" :> JList(<<JStr(<<"u", "1">>)>>)))>>)))],
      [text |-> "{\"choices\": [{..., \"citations\": [{\"url\": \"u1\"}]}]}",
       json |-> Some(JDict("choices" :> JList(<<
                   JDict(("message" :> JDict("content" :> JStr(<<"h", "i">>)))
                         @@ ("citations" :> JList(<<
                               JDict("url" :> JStr(<<"u", "1">>))>>)))>>)))],
      [text |-> "null", json |-> Some(JNull)],
      [text |-> "<html>Bad Gateway</html>", json |-> None] }
ReasonPhrase(status) ==
    CASE status = 200 -> "OK"
      [] status = 204 -> "No Content"
      [] status = 401 -> "Unauthorized"
      [] OTHER -> "Internal Server Error"
NetAnswers ==
    {[kind |-> "transport", status |-> 0, reason |-> "",
      body |-> [text |-> "", json |-> None]]}
        \cup {[kind |-> "response", status |-> st, reason |-> ReasonPhrase(st),
               body |-> b] : st \in HttpStatuses, b \in HttpBodies}

\* Response.raise_for_status raises for 400 <= status_code < 600
RaisesForStatus(status) == 400 <= status /\ status < 600

\* str(e) of the exception that requests raised, as its parts
StrOfError(ans) ==
    IF ans.kind = "transport" THEN <<"Connection refused">>
    ELSE IF RaisesForStatus(ans.status)
    THEN <<ToString(ans.status),
           IF ans.status < 500 THEN " Client Error: " ELSE " Server Error: ",
           ans.reason, " for url: ", API_URL>>
    ELSE <<"Expecting value: line 1 column 1 (char 0)">>

\* line 178: a new RequestException whose only argument is the text
Reraise(ans, class) ==
    Raise("RequestException", <<"API request failed: ">> \o StrOfError(ans), None, class)

\* lines 172-178: what execute_search does with the answer to its POST
ExecOutcome(ans, modern) ==
    IF ans.kind = "transport" THEN Reraise(ans, "ConnectionError")
    ELSE IF RaisesForStatus(ans.status) THEN Reraise(ans, "HTTPError")
    ELSE IF ans.body.json # None THEN Return(ans.body.json[1])
    ELSE IF modern THEN Reraise(ans, "JSONDecodeError")
    ELSE Raise("JSONDecodeError", StrOfError(ans), None, "")

\* why a call failed after its POST, "" when the body was decoded
CauseOf(ans) ==
    IF ans.kind = "transport" THEN "transport"
    ELSE IF ans.status < 200 \/ ans.status >= 300 THEN "http"
    ELSE IF ans.body.json = None THEN "decode"
    ELSE ""


\* execute_search with a retry: a failed attempt goes back to the POST
ExecAnswer_retry(t, ans) ==
    /\ th[t].pc = "await"
    /\ th' = [th EXCEPT ![t] =
                IF ExecOutcome(ans, requests_modern).kind = "raise"
                THEN [@ EXCEPT !.pc = "post"]
                ELSE [@ EXCEPT !.pc = "done", !.answer = ans, !.cause = CauseOf(ans),
                               !.outcome = ExecOutcome(ans, requests_modern)]]
    /\ UNCHANGED <<pureVars, guiVars, api_key, net_calls, observed, requests_modern>>

\* lines 173-178: requests.post returns or raises, the call ends
ExecAnswer(t, ans) ==
    /\ th[t].pc = "await"
    /\ th' = [th EXCEPT ![t] =
                [@ EXCEPT !.pc = "done", !.answer = ans, !.cause = CauseOf(ans),
                          !.outcome = ExecOutcome(ans, requests_modern)]]
    /\ UNCHANGED <<pureVars, guiVars, api_key, net_calls, observed, requests_modern>>

(***************************************************************************)
(* Inputs of the builders                                                  *)
(***************************************************************************)
MaxListLen == 2

\* all lists over S of at most n elements, order and duplicates included
RECURSIVE SeqsUpTo(_, _)
SeqsUpTo(S, n) ==
    IF n = 0 THEN {<<>>}
    ELSE LET shorter == SeqsUpTo(S, n - 1)
         IN  shorter \cup {Append(q, e) : q \in shorter, e \in S}

\* None, or any of the values of S
Optional(S) == {None} \cup {Some(v) : v \in S}

SourceKinds == {"web", "news", "x", "rss"}
SourceTypeInputs == SourceKinds \cup {"social"}
CountryInputs == Optional({<<>>, <<"U", "S">>})
SiteInputs == Optional(SeqsUpTo({<<"x", ".", "c", "o", "m">>, <<"y", ".", "i", "o">>},
                                MaxListLen))
HandleInputs == Optional(SeqsUpTo({<<"n", "a", "s", "a">>}, MaxListLen))
LinkInputs == Optional(SeqsUpTo({<<"h", "t", "t", "p", ":", "/", "/", "f">>}, MaxListLen))

SourceArgs ==
    [source_type : SourceTypeInputs, country : CountryInputs,
     excluded_websites : SiteInputs, safe_search : Optional(BOOLEAN),
     x_handles : HandleInputs, links : LinkInputs]

\* configs as the builder makes them, used as elements of `sources`
SampleSourceList ==
    << build_source_config("web", Some(<<"U", "S">>), None, Some(FALSE), None, None).value,
       build_source_config("x", None, None, None, Some(<< <<"n", "a", "s", "a">> >>), None).value,
       build_source_config("rss", None, None, None, None, None).value >>
SampleSources == {SampleSourceList[i] : i \in DOMAIN SampleSourceList}

ParamArgs ==
    [mode : Optional({"auto", "on", "off"}),
     sources : Optional(SeqsUpTo(SampleSources, MaxListLen)),
     from_date : Optional({"", "2025-01-01", "2025-06-30"}),
     to_date : Optional({"", "2025-01-01", "2025-06-30"}),
     max_search_results : Optional({1, 50}),
     return_citations : Optional(BOOLEAN)]

\* the client as __init__ leaves it, with no call in progress
ClientAtRest ==
    /\ api_key = None
    /\ th = <<>>
    /\ net_calls = 0
    /\ observed = {}
    /\ requests_modern = TRUE

\* no window: the methods are called without the front end
NoGui ==
    /\ form = <<>>
    /\ submit_button = <<>>
    /\ cursor = ""
    /\ bubble_chat = <<>>
    /\ after_queue = <<>>
    /\ ui_stack = <<>>
    /\ popups = 0
    /\ edits = 0

(***************************************************************************)
(* Specification of the client under one synchronous caller                *)
(***************************************************************************)
MaxCalls == 2

MainThread == 1

KeyInputs == Optional({<<>>, <<" ">>, <<"\t", "\n">>, <<"k">>, <<" ", "k", " ">>})
QueryInputs == {<<>>, <<"q">>}
ModelInputs == Optional({"grok-2"})
ParamInputs ==
    Optional({ build_search_parameters(DefaultMode, None, None, None,
                                       DefaultMaxResults, DefaultReturnCitations),
               build_search_parameters(DefaultMode, Some(<<>>), None, None,
                                       DefaultMaxResults, DefaultReturnCitations),
               build_search_parameters("on", Some(SampleSourceList),
                                       Some("2025-01-01"), None, 5, FALSE) })

InitClient ==
    /\ fn_args = <<>>
    /\ fn_ret = NotCalled
    /\ api_key \in {None, Some(<<"k">>)}
    /\ th = <<IdleFrame>>
    /\ net_calls = 0
    /\ observed = {}
    /\ requests_modern \in BOOLEAN
    /\ NoGui

\* lines 28-35, called while no call of this caller is in progress
SetApiKey(key) ==
    /\ th[MainThread].pc = "idle"
    /\ api_key' = key
    /\ UNCHANGED <<pureVars, guiVars, th, net_calls, observed, requests_modern>>

\* the caller enters execute_search
CallExecuteSearch(query, model, search_parameters) ==
    /\ th[MainThread].pc = "idle"
    /\ net_calls < MaxCalls
    /\ th' = [th EXCEPT ![MainThread] =
                EntryFrame(query, Arg(model, DefaultModel), search_parameters)]
    /\ UNCHANGED <<pureVars, guiVars, api_key, net_calls, observed, requests_modern>>

\* the caller has the result or the exception, and notes which exception
\* class it saw for which cause
ReturnToCaller ==
    /\ th[MainThread].pc = "done"
    /\ observed' = IF th[MainThread].outcome.kind = "raise"
                   THEN observed \cup {<<th[MainThread].cause,
                                         th[MainThread].outcome.exc>>}
                   ELSE observed
    /\ th' = [th EXCEPT ![MainThread] = IdleFrame]
    /\ UNCHANGED <<pureVars, guiVars, api_key, net_calls, requests_modern>>

NextClient ==
    \/ \E key \in KeyInputs : SetApiKey(key)
    \/ \E query \in QueryInputs, model \in ModelInputs, sp \in ParamInputs :
          CallExecuteSearch(query, model, sp)
    \/ ExecValidate(MainThread)
    \/ ExecBuild(MainThread)
    \/ ExecPost(MainThread)
    \/ \E ans \in NetAnswers : ExecAnswer(MainThread, ans)
    \/ ReturnToCaller

SpecClient == InitClient /\ [][NextClient]_vars

(***************************************************************************)
(* The front end: widgets read by _on_submit                               *)
(***************************************************************************)
\* first position of the character c in s, 0 when it does not occur
RECURSIVE IndexOf(_, _, _)
IndexOf(s, c, from) ==
    IF from > Len(s) THEN 0
    ELSE IF s[from] = c THEN from
    ELSE IndexOf(s, c, from + 1)

\* s.split(c)
RECURSIVE Split(_, _)
Split(s, c) ==
    LET i == IndexOf(s, c, 1)
    IN  IF i = 0 THEN <<s>>
        ELSE <<SubSeq(s, 1, i - 1)>> \o Split(SubSeq(s, i + 1, Len(s)), c)

\* [piece.strip() for piece in text.split(",") if piece.strip()]
StrippedPieces(text) ==
    LET pieces == Split(text, ",")
        stripped == [i \in 1..Len(pieces) |-> Strip(pieces[i])]
    IN  SelectSeq(stripped, LAMBDA piece : piece # <<>>)

\* the widgets as GrokLiveSearchGUI.__init__ leaves them
FormAtStart ==
    [api_key_var |-> <<>>, query_text |-> <<>>, model_var |-> DefaultModel,
     mode_var |-> "auto",
     web_var |-> TRUE, x_var |-> TRUE, news_var |-> FALSE, rss_var |-> FALSE,
     web_country_var |-> <<>>, web_excluded_var |-> <<>>, web_safe_search_var |-> TRUE,
     handles_var |-> <<>>,
     news_country_var |-> <<>>, news_excluded_var |-> <<>>, news_safe_search_var |-> TRUE,
     links_var |-> <<>>,
     from_date |-> "", to_date |-> "",
     max_results_var |-> DefaultMaxResults, return_citations_var |-> TRUE]

\* APIKeyFrame.get_api_key
get_api_key(f) == Strip(f.api_key_var)

\* QueryFrame.get_query and get_model
get_query(f) == Strip(f.query_text)
get_model(f) == f.model_var

\* WebSourceFrame.get_config
WebSourceFrame_get_config(f) ==
    LET c0 == ("type" :> "web")
        country == Strip(f.web_country_var)
        c1 == IF country # <<>> THEN DictSet(c0, "country", country) ELSE c0
        excluded == Strip(f.web_excluded_var)
        c2 == IF excluded # <<>> /\ StrippedPieces(excluded) # <<>>
              THEN DictSet(c1, "excluded_websites", StrippedPieces(excluded)) ELSE c1
    IN  DictSet(c2, "safe_search", f.web_safe_search_var)

\* XSourceFrame.get_config
XSourceFrame_get_config(f) ==
    LET c0 == ("type" :> "x")
        handles == Strip(f.handles_var)
    IN  IF handles # <<>> /\ StrippedPieces(handles) # <<>>
        THEN DictSet(c0, "x_handles", StrippedPieces(handles)) ELSE c0

\* NewsSourceFrame.get_config
NewsSourceFrame_get_config(f) ==
    LET c0 == ("type" :> "news")
        country == Strip(f.news_country_var)
        c1 == IF country # <<>> THEN DictSet(c0, "country", country) ELSE c0
        excluded == Strip(f.news_excluded_var)
        c2 == IF excluded # <<>> /\ StrippedPieces(excluded) # <<>>
              THEN DictSet(c1, "excluded_websites", StrippedPieces(excluded)) ELSE c1
    IN  DictSet(c2, "safe_search", f.news_safe_search_var)

\* RSSSourceFrame.get_config
RSSSourceFrame_get_config(f) ==
    LET c0 == ("type" :> "rss")
        links == Strip(f.links_var)
    IN  IF links # <<>> /\ StrippedPieces(links) # <<>>
        THEN DictSet(c0, "links", StrippedPieces(links)) ELSE c0

\* SourcesFrame.get_sources
get_sources(f) ==
    (IF f.web_var THEN <<WebSourceFrame_get_config(f)>> ELSE <<>>)
        \o (IF f.x_var THEN <<XSourceFrame_get_config(f)>> ELSE <<>>)
        \o (IF f.news_var THEN <<NewsSourceFrame_get_config(f)>> ELSE <<>>)
        \o (IF f.rss_var THEN <<RSSSourceFrame_get_config(f)>> ELSE <<>>)

\* SearchParametersFrame.get_search_parameters
get_search_parameters(f) ==
    LET p0 == ("mode" :> f.mode_var)
        p1 == DictSet(p0, "sources", get_sources(f))
        p2 == DictSet(p1, "max_search_results", f.max_results_var)
        p3 == DictSet(p2, "return_citations", f.return_citations_var)
        p4 == IF f.from_date # "" THEN DictSet(p3, "from_date", f.from_date) ELSE p3
    IN  IF f.to_date # "" THEN DictSet(p4, "to_date", f.to_date) ELSE p4

(***************************************************************************)
(* The front end: the UI thread, the search threads, the user              *)
(***************************************************************************)
MaxEdits == 4
MaxSearches == 2

\* what the user may put into each widget; the widgets with one value here
\* stay as __init__ leaves them
FieldInputs ==
    [api_key_var |-> {<<>>, <<" ">>, <<" ", "k">>, <<"j">>},
     query_text |-> {<<>>, <<"q", "\n">>},
     model_var |-> {DefaultModel},
     mode_var |-> {"auto"},
     web_var |-> BOOLEAN, x_var |-> BOOLEAN, news_var |-> BOOLEAN, rss_var |-> BOOLEAN,
     web_country_var |-> {<<>>},
     web_excluded_var |-> {<<>>, <<"a", ",", " ", ",", "b", " ">>},
     web_safe_search_var |-> {TRUE},
     handles_var |-> {<<>>},
     news_country_var |-> {<<>>},
     news_excluded_var |-> {<<>>},
     news_safe_search_var |-> {TRUE},
     links_var |-> {<<>>},
     from_date |-> {""},
     to_date |-> {""},
     max_results_var |-> {DefaultMaxResults},
     return_citations_var |-> {TRUE}]

\* the handler whose nested event loop is running; root.mainloop() below all
Waiting == IF ui_stack = <<>> THEN [at |-> "mainloop"] ELSE ui_stack[Len(ui_stack)]
Pop(stack) == SubSeq(stack, 1, Len(stack) - 1)

\* events of the main window's widgets are delivered: no message box is
\* open and no result window holds the grab
InputAllowed ==
    /\ popups = 0
    /\ Waiting.at \in {"mainloop", "update"}

InitGui ==
    /\ fn_args = <<>>
    /\ fn_ret = NotCalled
    /\ api_key = None
    /\ th = <<>>
    /\ net_calls = 0
    /\ observed = {}
    /\ requests_modern = TRUE   \* either way _background_search catches it, line 821
    /\ form = FormAtStart
    /\ submit_button = [state |-> "normal", text |-> "Execute Search"]
    /\ cursor = ""
    /\ bubble_chat = << [sender |-> "bot", text |-> <<"Welcome">>, citations |-> <<>>] >>
    /\ after_queue = <<>>
    /\ ui_stack = <<>>
    /\ popups = 0
    /\ edits = 0

\* the user changes one widget
UserEdit(field, value) ==
    /\ InputAllowed
    /\ edits < MaxEdits
    /\ value # form[field]
    /\ form' = [form EXCEPT ![field] = value]
    /\ edits' = edits + 1
    /\ UNCHANGED <<pureVars, clientVars, submit_button, cursor, bubble_chat,
                   after_queue, ui_stack, popups>>



\* _on_submit with set_api_key moved up, right behind the key check
OnSubmit_setkeyearly ==
    /\ InputAllowed
    /\ submit_button.state = "normal"
    /\ IF get_api_key(form) = <<>>
       THEN /\ ui_stack' = Append(ui_stack, [at |-> "key_box"])
            /\ UNCHANGED <<api_key, bubble_chat, cursor, submit_button>>
       ELSE IF get_query(form) = <<>>
       THEN /\ ui_stack' = Append(ui_stack, [at |-> "query_box"])
            /\ api_key' = Some(get_api_key(form))
            /\ UNCHANGED <<bubble_chat, cursor, submit_button>>
       ELSE /\ Len(th) < MaxSearches
            /\ api_key' = Some(get_api_key(form))
            /\ bubble_chat' = Append(bubble_chat,
                                 [sender |-> "user", text |-> get_query(form),
                                  citations |-> <<>>])
            /\ cursor' = "watch"
            /\ submit_button' = [state |-> "disabled", text |-> "Searching..."]
            /\ ui_stack' = Append(ui_stack,
                              [at |-> "update", query |-> get_query(form),
                               model |-> get_model(form),
                               search_params |-> get_search_parameters(form)])
    /\ UNCHANGED <<pureVars, th, net_calls, observed, requests_modern, form,
                   after_queue, popups, edits>>

\* _on_submit without line 801: the button is left enabled
OnSubmit_buttonleftenabled ==
    /\ InputAllowed
    /\ submit_button.state = "normal"
    /\ IF get_api_key(form) = <<>>
       THEN /\ ui_stack' = Append(ui_stack, [at |-> "key_box"])
            /\ UNCHANGED <<api_key, bubble_chat, cursor, submit_button>>
       ELSE IF get_query(form) = <<>>
       THEN /\ ui_stack' = Append(ui_stack, [at |-> "query_box"])
            /\ UNCHANGED <<api_key, bubble_chat, cursor, submit_button>>
       ELSE /\ Len(th) + Len(ui_stack) < MaxSearches
            /\ api_key' = Some(get_api_key(form))
            /\ bubble_chat' = Append(bubble_chat,
                                 [sender |-> "user", text |-> get_query(form),
                                  citations |-> <<>>])
            /\ cursor' = "watch"
            /\ UNCHANGED submit_button
            /\ ui_stack' = Append(ui_stack,
                              [at |-> "update", query |-> get_query(form),
                               model |-> get_model(form),
                               search_params |-> get_search_parameters(form)])
    /\ UNCHANGED <<pureVars, th, net_calls, observed, requests_modern, form,
                   after_queue, popups, edits>>

\* _on_submit, lines 784-802: the click on the enabled button, up to
\* root.update() or to the message box that rejects the click
OnSubmit ==
    /\ InputAllowed
    /\ submit_button.state = "normal"
    /\ IF get_api_key(form) = <<>>
       THEN /\ ui_stack' = Append(ui_stack, [at |-> "key_box"])
            /\ UNCHANGED <<api_key, bubble_chat, cursor, submit_button>>
       ELSE IF get_query(form) = <<>>
       THEN /\ ui_stack' = Append(ui_stack, [at |-> "query_box"])
            /\ UNCHANGED <<api_key, bubble_chat, cursor, submit_button>>
       ELSE /\ Len(th) < MaxSearches
            /\ api_key' = Some(get_api_key(form))
            /\ bubble_chat' = Append(bubble_chat,
                                 [sender |-> "user", text |-> get_query(form),
                                  citations |-> <<>>])
            /\ cursor' = "watch"
            /\ submit_button' = [state |-> "disabled", text |-> "Searching..."]
            /\ ui_stack' = Append(ui_stack,
                              [at |-> "update", query |-> get_query(form),
                               model |-> get_model(form),
                               search_params |-> get_search_parameters(form)])
    /\ UNCHANGED <<pureVars, th, net_calls, observed, requests_modern, form,
                   after_queue, popups, edits>>

\* the user closes the message box of a rejected click: _on_submit returns
DismissSubmitBox ==
    /\ Waiting.at \in {"key_box", "query_box"}
    /\ ui_stack' = Pop(ui_stack)
    /\ UNCHANGED <<pureVars, clientVars, form, submit_button, cursor, bubble_chat,
                   after_queue, popups, edits>>


\* set_api_key moved behind the start of the thread
OnSubmitStartThread_setkeylate ==
    /\ Waiting.at = "update"
    /\ th' = Append(th, EntryFrame(Waiting.query, Waiting.model,
                                   Some(Waiting.search_params)))
    /\ api_key' = Some(get_api_key(form))
    /\ ui_stack' = Pop(ui_stack)
    /\ UNCHANGED <<pureVars, net_calls, observed, requests_modern, form,
                   submit_button, cursor, bubble_chat, after_queue, popups, edits>>

\* _on_submit, lines 802-809: root.update() returns, the thread is started
OnSubmitStartThread ==
    /\ Waiting.at = "update"
    /\ th' = Append(th, EntryFrame(Waiting.query, Waiting.model,
                                   Some(Waiting.search_params)))
    /\ ui_stack' = Pop(ui_stack)
    /\ UNCHANGED <<pureVars, api_key, net_calls, observed, requests_modern, form,
                   submit_button, cursor, bubble_chat, after_queue, popups, edits>>

\* str(e), as its parts
StrOfException(outcome) == outcome.msg

\* _background_search, lines 818-822, after execute_search has ended: the
\* result is parsed and a callback is handed to the UI thread
BackgroundSearchEnd(t) ==
    /\ th[t].pc = "done"
    /\ LET parsed == IF th[t].outcome.kind = "raise" THEN th[t].outcome
                     ELSE parse_response(th[t].outcome.value)
       IN  after_queue' = Append(after_queue,
                IF parsed.kind = "raise"
                THEN [fn |-> "_on_search_error", arg |-> StrOfException(parsed)]
                ELSE [fn |-> "_on_search_success", arg |-> parsed.value])
    /\ th' = [th EXCEPT ![t] = [IdleFrame EXCEPT !.pc = "dead"]]
    /\ UNCHANGED <<pureVars, api_key, net_calls, observed, requests_modern, form,
                   submit_button, cursor, bubble_chat, ui_stack, popups, edits>>

\* url[:30], line 120: a str and a list can be sliced, any other value
\* raises TypeError
Sliceable(v) == v[1] \in {"str", "list"}

\* the citations for which the loop of add_bot_message, lines 119-123, runs
\* to its end: enumerate() raises TypeError on an int or a bool, the
\* elements of a str and the keys of a dict are str, the elements of a list
\* are sliced one by one
CitationLinksDrawn(citations) ==
    CASE citations[1] \in {"int", "bool"} -> FALSE
      [] citations[1] = "list" ->
            \A i \in DOMAIN citations[2] : Sliceable(citations[2][i])
      [] OTHER -> TRUE

\* add_bot_message(message, citations) returns, lines 88-135: Text.insert
\* of None is a Tcl call without the chars argument and raises TclError
\* (line 107), and the citations are drawn only `if citations:` (line 112)
add_bot_message_returns(message, citations) ==
    /\ message[1] # "null"
    /\ PyTruthy(citations) => CitationLinksDrawn(citations)

\* the event loop, nested or not, runs the oldest callback: lines 824-831
\* of _on_search_success, or _on_search_error up to its message box.  When
\* add_bot_message raises, its bubble is already packed, the callback ends
\* there and Tk reports the exception and carries on with the loop
RunAfter ==
    /\ after_queue # <<>>
    /\ after_queue' = Tail(after_queue)
    /\ IF Head(after_queue).fn = "_on_search_success"
       THEN /\ bubble_chat' = Append(bubble_chat,
                                 [sender |-> "bot",
                                  text |-> Head(after_queue).arg.content,
                                  citations |-> Head(after_queue).arg.citations])
            /\ IF add_bot_message_returns(Head(after_queue).arg.content,
                                          Head(after_queue).arg.citations)
               THEN /\ popups' = popups + 1
                    /\ cursor' = ""
                    /\ submit_button' = [state |-> "normal",
                                         text |-> "Execute Search"]
               ELSE UNCHANGED <<popups, cursor, submit_button>>
            /\ UNCHANGED ui_stack
       ELSE /\ ui_stack' = Append(ui_stack, [at |-> "error_box",
                                             msg |-> Head(after_queue).arg])
            /\ UNCHANGED <<bubble_chat, popups, cursor, submit_button>>
    /\ UNCHANGED <<pureVars, clientVars, form, edits>>

\* the user closes the box of _on_search_error: lines 835-837
DismissErrorBox ==
    /\ Waiting.at = "error_box"
    /\ bubble_chat' = Append(bubble_chat,
                         [sender |-> "bot", text |-> <<"Error: ">> \o Waiting.msg,
                          citations |-> <<>>])
    /\ cursor' = ""
    /\ submit_button' = [state |-> "normal", text |-> "Execute Search"]
    /\ ui_stack' = Pop(ui_stack)
    /\ UNCHANGED <<pureVars, clientVars, form, after_queue, popups, edits>>

\* the user closes a result window
ClosePopup ==
    /\ popups > 0
    /\ popups' = popups - 1
    /\ UNCHANGED <<pureVars, clientVars, form, submit_button, cursor, bubble_chat,
                   after_queue, ui_stack, edits>>

\* BubbleChatFrame.clear, the Clear Chat button
ClearChat ==
    /\ InputAllowed
    /\ bubble_chat # <<>>
    /\ bubble_chat' = <<>>
    /\ UNCHANGED <<pureVars, clientVars, form, submit_button, cursor,
                   after_queue, ui_stack, popups, edits>>

\* answers of the network to a search of the front end
GuiNetAnswers ==
    {a \in NetAnswers : a.status \in {0, 200, 401} /\ (a.status = 401 => a.body.json = None)}

NextGui ==
    \/ \E field \in DOMAIN FieldInputs : \E value \in FieldInputs[field] :
          UserEdit(field, value)
    \/ OnSubmit
    \/ DismissSubmitBox
    \/ OnSubmitStartThread
    \/ \E t \in DOMAIN th : ExecValidate(t)
    \/ \E t \in DOMAIN th : ExecBuild(t)
    \/ \E t \in DOMAIN th : ExecPost(t)
    \/ \E t \in DOMAIN th : \E ans \in GuiNetAnswers : ExecAnswer(t, ans)
    \/ \E t \in DOMAIN th : BackgroundSearchEnd(t)
    \/ RunAfter
    \/ DismissErrorBox
    \/ ClosePopup
    \/ ClearChat

SpecGui == InitGui /\ [][NextGui]_vars

(***************************************************************************)
(* Specification of build_source_config                                    *)
(***************************************************************************)
InitSource ==
    /\ fn_args \in SourceArgs
    /\ fn_ret = NotCalled
    /\ ClientAtRest
    /\ NoGui

CallBuildSourceConfig ==
    /\ fn_ret = NotCalled
    /\ fn_ret' = build_source_config(fn_args.source_type, fn_args.country,
                                     fn_args.excluded_websites, fn_args.safe_search,
                                     fn_args.x_handles, fn_args.links)
    /\ UNCHANGED <<fn_args, clientVars, guiVars>>

NextSource == CallBuildSourceConfig

SpecSource == InitSource /\ [][NextSource]_vars

(***************************************************************************)
(* Specification of build_search_parameters                                *)
(***************************************************************************)
InitParams ==
    /\ fn_args \in ParamArgs
    /\ fn_ret = NotCalled
    /\ ClientAtRest
    /\ NoGui

CallBuildSearchParameters ==
    /\ fn_ret = NotCalled
    /\ fn_ret' = Return(build_search_parameters(
                            Arg(fn_args.mode, DefaultMode), fn_args.sources,
                            fn_args.from_date, fn_args.to_date,
                            Arg(fn_args.max_search_results, DefaultMaxResults),
                            Arg(fn_args.return_citations, DefaultReturnCitations)))
    /\ UNCHANGED <<fn_args, clientVars, guiVars>>

NextParams == CallBuildSearchParameters

SpecParams == InitParams /\ [][NextParams]_vars

(***************************************************************************)
(* Specification of parse_response                                         *)
(***************************************************************************)
\* values of every JSON type that is not a container, and the empty ones
JAtoms ==
    {JNull, JBool(TRUE), JBool(FALSE), JInt(0), JInt(7), JStr(<<>>),
     JStr(<<"h", "i">>), JList(<<>>), JDict(<<>>)}

\* a str and a list that hold the literal the code looks up
JHolding(key) == {JStr(<<"a">> \o Chars(key)), JList(<<JStr(Chars(key))>>)}

JUrls == {JStr(<<"u", "1">>), JStr(<<"u", "2">>)}

JContents == {JNull, JInt(7), JStr(<<>>), JStr(<<" ", "h", "i", "\n">>)}

JMessages ==
    JAtoms \cup JHolding("content")
        \cup {JDict("content" :> c) : c \in JContents}

JCitations ==
    {JNull, JInt(7), JStr(<<"u", "1">>), JDict("u" :> JInt(0))}
        \cup {JList(l) : l \in SeqsUpTo(JUrls, MaxListLen)}

JChoices ==
    JAtoms \cup JHolding("message") \cup JHolding("citations")
        \cup {JDict(d) : d \in [{"message"} -> JMessages]}
        \cup {JDict(d) : d \in [{"citations"} -> JCitations]}
        \cup {JDict(("message" :> m) @@ ("citations" :> c)) :
                 m \in JMessages, c \in JCitations}

\* what may follow the first element of `choices`
JLaterChoices ==
    {JNull, JDict(("message" :> JDict("content" :> JStr(<<"l", "8", "r">>)))
                  @@ ("citations" :> JList(<<JStr(<<"u", "2">>)>>)))}

JChoiceLists ==
    JAtoms \cup {JDict("k" :> JInt(0))}
        \cup {JList(<<first>> \o rest) :
                 first \in JChoices, rest \in SeqsUpTo(JLaterChoices, MaxListLen - 1)}

JResponses ==
    JAtoms \cup JHolding("choices")
        \cup {JDict("id" :> JStr(<<"r", "1">>))}
        \cup {JDict("choices" :> c) : c \in JChoiceLists}
        \cup {JDict(("choices" :> c) @@ ("id" :> JStr(<<"r", "1">>))) :
                 c \in JChoiceLists}

InitParse ==
    /\ fn_args \in [response : JResponses]
    /\ fn_ret = NotCalled
    /\ ClientAtRest
    /\ NoGui

CallParseResponse ==
    /\ fn_ret = NotCalled
    /\ fn_ret' = parse_response(fn_args.response)
    /\ UNCHANGED <<fn_args, clientVars, guiVars>>

NextParse == CallParseResponse

SpecParse == InitParse /\ [][NextParse]_vars

(***************************************************************************)
(* Claims on the builders                                                  *)
(***************************************************************************)
AllowedKeys(kind) ==
    IF kind \in {"web", "news"}
    THEN {"type", "country", "excluded_websites", "safe_search"}
    ELSE IF kind = "x" THEN {"type", "x_handles"}
    ELSE {"type", "links"}

\* C2: for each of the four source kinds and every combination of supplied
\* options, the config that build_source_config returns has no key outside
\* the kind's allowed set.
C2_NoForeignKey ==
    (fn_ret.kind = "return" /\ fn_args.source_type \in SourceKinds)
        => DOMAIN fn_ret.value \subseteq AllowedKeys(fn_args.source_type)

\* an x config was built with a country, sites and safe_search supplied
C2_Witness ==
    /\ fn_ret.kind = "return"
    /\ fn_args.source_type = "x"
    /\ Truthy(fn_args.country)
    /\ Truthy(fn_args.excluded_websites)
    /\ fn_args.safe_search # None
    /\ Truthy(fn_args.links)
    /\ Truthy(fn_args.x_handles)
    /\ DOMAIN fn_ret.value = {"type", "x_handles"}

\* C7: build_source_config fails with UnknownSourceKind, returning no config,
\* if and only if source_type is not one of the four recognized kinds.
C7_FailsIffUnknownKind ==
    fn_ret # NotCalled
        => ((fn_ret.kind = "raise") <=> (fn_args.source_type \notin SourceKinds))

\* C9: build_search_parameters with sources empty or not supplied returns
\* parameters without the `sources` key; with a non-empty list, `sources` is
\* present and is the supplied list, in the same order.
C9_SourcesKey ==
    fn_ret.kind = "return"
        => IF fn_args.sources = None \/ fn_args.sources = Some(<<>>)
           THEN "sources" \notin DOMAIN fn_ret.value
           ELSE /\ "sources" \in DOMAIN fn_ret.value
                /\ fn_ret.value["sources"] = fn_args.sources[1]

\* the builder was called with an explicitly empty list and left the key out
C9_Witness ==
    /\ fn_ret.kind = "return"
    /\ fn_args.sources = Some(<<>>)
    /\ "sources" \notin DOMAIN fn_ret.value

\* C10: for web and news, safe_search is tri-state: not supplied, the key is
\* absent; supplied as false, the key is present with false; supplied as
\* true, the key is present with true.
C10_SafeSearchTriState ==
    (fn_ret.kind = "return" /\ fn_args.source_type \in {"web", "news"})
        => IF fn_args.safe_search = None
           THEN "safe_search" \notin DOMAIN fn_ret.value
           ELSE /\ "safe_search" \in DOMAIN fn_ret.value
                /\ fn_ret.value["safe_search"] = fn_args.safe_search[1]

\* a news config was built with safe_search supplied as false
C10_Witness ==
    /\ fn_ret.kind = "return"
    /\ fn_args.source_type = "news"
    /\ fn_args.safe_search = Some(FALSE)
    /\ "safe_search" \in DOMAIN fn_ret.value
    /\ fn_ret.value["safe_search"] = FALSE

(***************************************************************************)
(* Claims on parse_response                                                *)
(***************************************************************************)
\* C3: parse_response never raises: for every decoded JSON value, a
\* non-object top level, a `choices` that is no list, a first choice that is
\* no object and a `message` that is null or no object included, it returns
\* a result with a content, a citations and a raw field.
C3_NeverRaises ==
    fn_ret # NotCalled
        => /\ fn_ret.kind = "return"
           /\ DOMAIN fn_ret.value = {"content", "citations", "raw"}

(***************************************************************************)
(* Claims on the client                                                    *)
(***************************************************************************)
\* the key is set and some character of it is not whitespace
HasVisibleChar(key) ==
    key # None /\ \E i \in 1..Len(key[1]) : key[1][i] \notin Whitespace

\* C1: after any sequence of set_api_key calls, execute_search fails with
\* the missing-credential error and makes no network call whenever the key
\* held is unset, empty or only whitespace; validate_api_key is true exactly
\* when the key held is non-empty after trimming whitespace.
C1_MissingCredential ==
    /\ validate_api_key(api_key) <=> HasVisibleChar(api_key)
    /\ (th[MainThread].pc = "done" /\ ~HasVisibleChar(api_key))
          => /\ th[MainThread].outcome.kind = "raise"
             /\ th[MainThread].outcome.exc = "ValueError"
             /\ th[MainThread].posts = 0

\* a call has failed under a whitespace-only key that replaced, by
\* set_api_key, a key under which an earlier call had reached the network
C1_Witness ==
    /\ th[MainThread].pc = "done"
    /\ api_key = Some(<<"\t", "\n">>)
    /\ net_calls > 0
    /\ th[MainThread].outcome.exc = "ValueError"
    /\ th[MainThread].posts = 0

\* C4: when the endpoint answers with a non-2xx status, execute_search fails
\* with an error that carries the original status code and the original
\* response body to the caller.
C4_HttpErrorCarriesStatusAndBody ==
    (th[MainThread].pc = "done" /\ th[MainThread].cause = "http")
        => /\ th[MainThread].outcome.kind = "raise"
           /\ th[MainThread].outcome.response =
                 Some([status_code |-> th[MainThread].answer.status,
                       text |-> th[MainThread].answer.body.text])

PostSendCauses == {"transport", "http", "decode"}

\* C5: transport failure, non-2xx status and undecodable body produce three
\* pairwise distinguishable error outcomes: no two calls that failed for
\* different causes show the caller the same kind of error.
C5_DistinctOutcomeKinds ==
    \A a \in observed, b \in observed :
        (a[1] \in PostSendCauses /\ b[1] \in PostSendCauses /\ a[1] # b[1])
            => a[2] # b[2]

\* C6: execute_search never transmits a request whose query is empty,
\* whatever its caller checked.
C6_NoEmptyQuerySent ==
    \A t \in DOMAIN th :
        th[t].posts > 0 => th[t].payload.messages[1].content # <<>>

(***************************************************************************)
(* Claims on what the front end sends                                      *)
(***************************************************************************)
\* C8: every request body that execute_search transmits, whichever caller
\* assembled its search_parameters, has either no `sources` key or a
\* non-empty `sources` list.
C8_NoEmptySourcesSent ==
    \A t \in DOMAIN th :
        (th[t].posts > 0 /\ "sources" \in DOMAIN th[t].payload.search_parameters)
            => th[t].payload.search_parameters["sources"] # <<>>

(***************************************************************************)
(* Claims on the single attempt and on the request sent                    *)
(***************************************************************************)
\* C11: each call to execute_search issues at most one POST, whatever the
\* outcome: a call that has ended after its POST has made exactly one, and
\* no call in progress has made more than one.
C11_AtMostOnePost ==
    \A t \in DOMAIN th :
        /\ th[t].posts <= 1
        /\ (th[t].pc = "done" /\ th[t].cause # "credential") => th[t].posts = 1

\* a second call has ended with a transport failure after its one POST
C11_Witness ==
    /\ th[MainThread].pc = "done"
    /\ th[MainThread].cause = "transport"
    /\ th[MainThread].posts = 1
    /\ net_calls = 2

(***************************************************************************)
(* Claims on the parser's result                                           *)
(***************************************************************************)
\* C12: parse_response on a response object whose `choices` key is absent,
\* or whose `choices` is the empty list, returns without raising, with
\* content the empty string and citations the empty list.
C12_AbsentOrEmptyChoices ==
    (/\ fn_ret.kind # "none"
     /\ fn_args.response[1] = "dict"
     /\ \/ "choices" \notin DOMAIN fn_args.response[2]
        \/ fn_args.response[2]["choices"] = JList(<<>>))
        => /\ fn_ret.kind = "return"
           /\ fn_ret.value.content = JStr(<<>>)
           /\ fn_ret.value.citations = JList(<<>>)

\* a response with other fields and an empty `choices` list has been parsed
C12_Witness ==
    /\ fn_ret.kind = "return"
    /\ fn_args.response =
          JDict(("choices" :> JList(<<>>)) @@ ("id" :> JStr(<<"r", "1">>)))

\* the content and the citations that the first element of `choices`
\* carries, and the defaults when it carries none
CarriedContent(first) ==
    IF /\ first[1] = "dict"
       /\ "message" \in DOMAIN first[2]
       /\ first[2]["message"][1] = "dict"
       /\ "content" \in DOMAIN first[2]["message"][2]
    THEN first[2]["message"][2]["content"]
    ELSE JStr(<<>>)

CarriedCitations(first) ==
    IF /\ first[1] = "dict"
       /\ "citations" \in DOMAIN first[2]
       /\ first[2]["citations"][1] = "list"
    THEN first[2]["citations"]
    ELSE JList(<<>>)

\* C13: when `choices` is a non-empty list, parse_response returns the
\* content of the first element's message, verbatim, or the empty string
\* when there is none, and the first element's citations list, in order and
\* with duplicates, or the empty list when there is none; each independently
\* of the other and of the later elements.
C13_FirstChoiceOnly ==
    (/\ fn_ret.kind # "none"
     /\ fn_args.response[1] = "dict"
     /\ "choices" \in DOMAIN fn_args.response[2]
     /\ fn_args.response[2]["choices"][1] = "list"
     /\ fn_args.response[2]["choices"][2] # <<>>)
        => LET first == fn_args.response[2]["choices"][2][1]
           IN  /\ fn_ret.kind = "return"
               /\ fn_ret.value.content = CarriedContent(first)
               /\ fn_ret.value.citations = CarriedCitations(first)

\* C14: whenever parse_response returns a result, the result's `raw` is the
\* input response, whole and unchanged, whatever was extracted from it.
C14_RawIsInput ==
    fn_ret.kind = "return" => fn_ret.value.raw = fn_args.response

\* a response with two choices and another top-level field has been parsed,
\* and content and citations were taken from its first choice
C14_Witness ==
    /\ fn_ret.kind = "return"
    /\ fn_ret.value.content = JStr(<<" ", "h", "i", "\n">>)
    /\ fn_ret.value.citations = JList(<<JStr(<<"u", "2">>), JStr(<<"u", "2">>)>>)
    /\ "id" \in DOMAIN fn_args.response[2]
    /\ Len(fn_args.response[2]["choices"][2]) = 2

\* C15: the body that execute_search sends has exactly the keys messages,
\* search_parameters and model; messages is one element with role "user" and
\* the query argument as content; model is the model argument;
\* search_parameters is the parameters argument unchanged (the parameters of
\* a bare build_search_parameters() when none were passed); and the
\* Authorization header is "Bearer " followed by the key the client holds.
C15_RequestSent ==
    \A t \in DOMAIN th :
        th[t].posts > 0 =>
            /\ DOMAIN th[t].payload = {"messages", "search_parameters", "model"}
            /\ Len(th[t].payload.messages) = 1
            /\ DOMAIN th[t].payload.messages[1] = {"role", "content"}
            /\ th[t].payload.messages[1].role = "user"
            /\ th[t].payload.messages[1].content = th[t].query
            /\ th[t].payload.model = th[t].model
            /\ th[t].search_parameters # None
                  => th[t].payload.search_parameters = th[t].search_parameters[1]
            /\ th[t].search_parameters = None
                  => th[t].payload.search_parameters =
                        ("mode" :> "auto") @@ ("max_search_results" :> 20)
                            @@ ("return_citations" :> TRUE)
            /\ api_key # None
            /\ th[t].headers["Authorization"] =
                  <<"B", "e", "a", "r", "e", "r", " ">> \o api_key[1]
            /\ th[t].headers["Content-Type"] = <<"application/json">>

\* a request with an empty query, the model "grok-2" and no parameters
\* passed has been sent under a key with blanks around it
C15_Witness ==
    /\ th[MainThread].posts > 0
    /\ th[MainThread].query = <<>>
    /\ th[MainThread].model = "grok-2"
    /\ th[MainThread].search_parameters = None
    /\ api_key = Some(<<" ", "k", " ">>)

(***************************************************************************)
(* Claims on the fields the builders emit                                  *)
(***************************************************************************)
\* a date was supplied: the argument was passed and is not the empty string
DateSupplied(arg) == arg # None /\ arg[1] # ""

\* C16: build_search_parameters always emits mode, max_search_results and
\* return_citations, with the values auto, 20 and true when the caller does
\* not supply them and the supplied values otherwise; it emits from_date
\* exactly when a from date is supplied and to_date exactly when a to date is
\* supplied, each whatever the other is, and it returns for every pair of
\* dates, a to date earlier than the from date included.
C16_DefaultsAndDates ==
    fn_ret.kind # "none" =>
        /\ fn_ret.kind = "return"
        /\ {"mode", "max_search_results", "return_citations"} \subseteq DOMAIN fn_ret.value
        /\ fn_ret.value["mode"] =
              IF fn_args.mode = None THEN "auto" ELSE fn_args.mode[1]
        /\ fn_ret.value["max_search_results"] =
              IF fn_args.max_search_results = None THEN 20
              ELSE fn_args.max_search_results[1]
        /\ fn_ret.value["return_citations"] =
              IF fn_args.return_citations = None THEN TRUE
              ELSE fn_args.return_citations[1]
        /\ "from_date" \in DOMAIN fn_ret.value <=> DateSupplied(fn_args.from_date)
        /\ DateSupplied(fn_args.from_date)
              => fn_ret.value["from_date"] = fn_args.from_date[1]
        /\ "to_date" \in DOMAIN fn_ret.value <=> DateSupplied(fn_args.to_date)
        /\ DateSupplied(fn_args.to_date)
              => fn_ret.value["to_date"] = fn_args.to_date[1]

\* the builder returned, with the defaults, for a to date that is earlier
\* than the from date
C16_Witness ==
    /\ fn_ret.kind = "return"
    /\ fn_args.mode = None
    /\ fn_args.max_search_results = None
    /\ fn_args.return_citations = None
    /\ fn_args.from_date = Some("2025-06-30")
    /\ fn_args.to_date = Some("2025-01-01")

\* a country or a list of sites was supplied: the argument was passed and
\* is not empty
ValueSupplied(arg) == arg # None /\ arg[1] # <<>>

\* C17, as stated: for web and news the config's keys are `type` and exactly
\* those of country, excluded_websites and safe_search that were supplied,
\* each with the supplied value.
C17_SuppliedFieldSet ==
    (fn_ret.kind = "return" /\ fn_args.source_type \in {"web", "news"})
        => /\ DOMAIN fn_ret.value =
                 {"type"}
                    \cup (IF fn_args.country # None THEN {"country"} ELSE {})
                    \cup (IF fn_args.excluded_websites # None
                          THEN {"excluded_websites"} ELSE {})
                    \cup (IF fn_args.safe_search # None THEN {"safe_search"} ELSE {})
           /\ fn_ret.value["type"] = fn_args.source_type
           /\ fn_args.country # None
                 => fn_ret.value["country"] = fn_args.country[1]
           /\ fn_args.excluded_websites # None
                 => fn_ret.value["excluded_websites"] = fn_args.excluded_websites[1]
           /\ fn_args.safe_search # None
                 => fn_ret.value["safe_search"] = fn_args.safe_search[1]

\* C17, amended: for web and news the config's keys are `type`, those of
\* country and excluded_websites that were supplied with a non-empty value,
\* and safe_search if it was supplied, each with the supplied value, the
\* sites in the supplied order and with their duplicates; nothing else is
\* emitted, and nothing as null.
C17_ExactFieldSet ==
    (fn_ret.kind = "return" /\ fn_args.source_type \in {"web", "news"})
        => /\ DOMAIN fn_ret.value =
                 {"type"}
                    \cup (IF ValueSupplied(fn_args.country) THEN {"country"} ELSE {})
                    \cup (IF ValueSupplied(fn_args.excluded_websites)
                          THEN {"excluded_websites"} ELSE {})
                    \cup (IF fn_args.safe_search # None THEN {"safe_search"} ELSE {})
           /\ fn_ret.value["type"] = fn_args.source_type
           /\ ValueSupplied(fn_args.country)
                 => fn_ret.value["country"] = fn_args.country[1]
           /\ ValueSupplied(fn_args.excluded_websites)
                 => fn_ret.value["excluded_websites"] = fn_args.excluded_websites[1]
           /\ fn_args.safe_search # None
                 => fn_ret.value["safe_search"] = fn_args.safe_search[1]

\* web with country US, the one site x.com and safe_search true has given
\* exactly these four fields
C17_Witness ==
    /\ fn_args.source_type = "web"
    /\ fn_args.country = Some(<<"U", "S">>)
    /\ fn_args.excluded_websites = Some(<< <<"x", ".", "c", "o", "m">> >>)
    /\ fn_args.safe_search = Some(TRUE)
    /\ fn_ret.kind = "return"
    /\ fn_ret.value = ("type" :> "web") @@ ("country" :> <<"U", "S">>)
                         @@ ("excluded_websites" :> << <<"x", ".", "c", "o", "m">> >>)
                         @@ ("safe_search" :> TRUE)

(***************************************************************************)
(* Claims on the front end's searches                                      *)
(***************************************************************************)
\* the searches in flight: a thread that runs _background_search, a callback
\* it has handed over and that has not run yet, or _on_search_error waiting
\* in its message box before it re-enables the button
ThreadsAlive == {t \in DOMAIN th : th[t].pc # "dead"}
ErrorBoxes == {i \in DOMAIN ui_stack : ui_stack[i].at = "error_box"}
InFlight == Cardinality(ThreadsAlive) + Len(after_queue) + Cardinality(ErrorBoxes)

\* C18: at most one background search is in flight at any time, and from the
\* start of its thread until its callback has run the submit button is
\* disabled, so that no second execute_search begins.
C18_OneSearchInFlight ==
    /\ InFlight <= 1
    /\ InFlight = 1 => submit_button.state = "disabled"
    /\ \A i \in DOMAIN ui_stack :
          ui_stack[i].at = "update" => (InFlight = 0 /\ submit_button.state = "disabled")

\* a second search waits for the network after the first one has ended, and
\* the user has emptied the key field meanwhile
C18_Witness ==
    /\ Len(th) = 2
    /\ th[1].pc = "dead"
    /\ th[2].pc = "await"
    /\ get_api_key(form) = <<>>
    /\ submit_button.state = "disabled"

\* C19: the client's key is never changed while a search is in flight, be it
\* from the start of its thread to the end of its callback; so each call
\* that has built its headers holds a key that passes validate_api_key and
\* is the key of its Authorization header.
C19_KeyQuietInFlight ==
    /\ [][api_key' # api_key => (InFlight = 0 /\ InFlight' = 0)]_vars
    /\ [](\A t \in ThreadsAlive :
             th[t].headers # <<>>
                => /\ validate_api_key(api_key)
                   /\ th[t].headers["Authorization"] =
                         <<"B", "e", "a", "r", "e", "r", " ">> \o api_key[1])

\* a second search, submitted under another key than the first, has built
\* its headers
C19_Witness ==
    /\ Len(th) = 2
    /\ th[1].pc = "dead"
    /\ th[2].pc = "post"
    /\ api_key = Some(<<"j">>)
    /\ \E i \in DOMAIN bubble_chat : bubble_chat[i].sender = "bot" /\ i > 1

\* C20: a submit with a key or a query that is empty after trimming is
\* rejected and changes nothing: no thread is started and no request is
\* sent, the client's key, the chat, the button and the cursor stay as they
\* were, the button enabled; with both empty it is the key that is
\* reported. (A step in which _on_submit begins is one that adds a handler
\* other than _on_search_error to those waiting.)
C20_RejectedSubmitChangesNothing ==
    [][(/\ Len(ui_stack') = Len(ui_stack) + 1
        /\ ui_stack'[Len(ui_stack')].at # "error_box"
        /\ (get_api_key(form) = <<>> \/ get_query(form) = <<>>))
          => /\ ui_stack'[Len(ui_stack')].at =
                   IF get_api_key(form) = <<>> THEN "key_box" ELSE "query_box"
             /\ submit_button.state = "normal"
             /\ UNCHANGED <<api_key, th, net_calls, after_queue, bubble_chat,
                            submit_button, cursor, form>>]_vars

\* after one search, a submit with another key in the form and an empty
\* query waits in its message box, and the client still holds the first key
C20_Witness ==
    /\ Waiting.at = "query_box"
    /\ Len(th) = 1
    /\ th[1].pc = "dead"
    /\ api_key = Some(<<"k">>)
    /\ get_api_key(form) = <<"j">>
    /\ submit_button.state = "normal"

(***************************************************************************)
(* C21                                                                     *)
(***************************************************************************)
\* a search of the front end that has been started and whose callback has
\* not run to its end
SearchPending ==
    \/ InFlight > 0
    \/ \E i \in DOMAIN ui_stack : ui_stack[i].at = "update"

\* C21: every search started by _on_submit gets exactly one callback,
\* _on_search_success or _on_search_error, which is scheduled only by the
\* step of its thread that follows the end of execute_search, and once that
\* callback has run no search is pending any more, the submit button is
\* enabled again and the cursor is reset.
C21_OneCallbackThenEnabled ==
    /\ [][after_queue' # after_queue /\ Len(after_queue') >= Len(after_queue)
            => /\ after_queue' = Append(after_queue, after_queue'[Len(after_queue')])
               /\ after_queue'[Len(after_queue')].fn
                     \in {"_on_search_success", "_on_search_error"}
               /\ Cardinality({t \in DOMAIN th :
                                 th[t].pc = "done" /\ th'[t].pc = "dead"}) = 1]_vars
    /\ [][\A t \in DOMAIN th : th[t].pc # "dead" /\ th'[t].pc = "dead"
            => th[t].pc = "done" /\ Len(after_queue') = Len(after_queue) + 1]_vars
    /\ [](~SearchPending => submit_button.state = "normal" /\ cursor = "")

(***************************************************************************)
(* C22                                                                     *)
(***************************************************************************)
\* the search parameters that a call posts: the caller's object, or the
\* defaults when the caller gave none
PostedParameters(f) ==
    IF f.search_parameters = None
    THEN build_search_parameters(DefaultMode, None, None, None,
                                 DefaultMaxResults, DefaultReturnCitations)
    ELSE f.search_parameters[1]

\* C22: from its entry to its return or raise, execute_search leaves the
\* stored API key and the caller's arguments (search_parameters included) as
\* they were; nothing of a call is left once it has ended; and whatever
\* calls came before, the outcome of a call is the one that the key held
\* now, its own arguments and the endpoint's answer determine.
C22_ExecuteSearchKeepsNothing ==
    /\ [][th[MainThread].pc # "idle"
            => /\ api_key' = api_key
               /\ th'[MainThread].pc # "idle"
                     => /\ th'[MainThread].search_parameters
                              = th[MainThread].search_parameters
                        /\ th'[MainThread].query = th[MainThread].query
                        /\ th'[MainThread].model = th[MainThread].model]_vars
    /\ [](th[MainThread].pc = "idle" => th[MainThread] = IdleFrame)
    /\ [](th[MainThread].pc = "done"
            => IF ~validate_api_key(api_key)
               THEN /\ th[MainThread].outcome.kind = "raise"
                    /\ th[MainThread].outcome.exc = "ValueError"
                    /\ th[MainThread].posts = 0
               ELSE /\ th[MainThread].posts = 1
                    /\ th[MainThread].payload
                          = Payload(th[MainThread].query, th[MainThread].model,
                                    PostedParameters(th[MainThread]))
                    /\ th[MainThread].headers = Headers(api_key)
                    /\ th[MainThread].outcome
                          = ExecOutcome(th[MainThread].answer, requests_modern))

\* a second call has returned a response with the caller's own parameters,
\* after an earlier call of the same client had raised
C22_Witness ==
    /\ th[MainThread].pc = "done"
    /\ th[MainThread].outcome.kind = "return"
    /\ th[MainThread].search_parameters # None
    /\ net_calls = 2
    /\ observed # {}

====
